---- MODULE Spec2Model ----
(***************************************************************************)
(* Model of gateways/redis_db_gateway.py: the RedisGateway constructor     *)
(* (port resolution, client creation, the bounded liveness-probe loop of   *)
(* _test_connection_with / _test_connection) and RedisGateway.get.         *)
(*                                                                         *)
(* The Redis server and the redis-py client are the environment: what a    *)
(* call to self.r.echo or self.r.get answers is chosen nondeterministically *)
(* from the outcomes the client library can produce.                       *)
(***************************************************************************)
EXTENDS Integers, Sequences, FiniteSets, TLC

VARIABLES
    pc,        \* lifecycle position of the instance under construction
    args,      \* the arguments __init__ was called with
    self,      \* the instance's attributes: host, port, password, r
    t,         \* loop variable of _test_connection_with
    outcomes,  \* what each self.r.echo call answered, in order
    log,       \* what construction did, in order: notice, open, probe, sleep
    err,       \* the exception __init__ raised to its caller, or NoExc
    lastGet,   \* the current or last get() call: position, arguments, commands sent,
               \* the store's reply, and what get gave its caller
    cli        \* the command-line program (__main__), when it is the caller: its
               \* position, what it parsed, and what it printed in this iteration

vars == <<pc, args, self, t, outcomes, log, err, lastGet, cli>>

----------------------------------------------------------------------------
(* Bounds of the model *)

MaxTimeout == 2
MaxLen == 2

----------------------------------------------------------------------------
(* Python values: None, int and str (a str is its sequence of characters) *)

None == [ty |-> "none", i |-> 0, s |-> <<>>]
IntV(n) == [ty |-> "int", i |-> n, s |-> <<>>]
StrV(cs) == [ty |-> "str", i |-> 0, s |-> cs]

\* bool(v): None, 0 and '' are falsy
Truthy(v) ==
    CASE v.ty = "none" -> FALSE
      [] v.ty = "int" -> v.i # 0
      [] v.ty = "str" -> v.s # <<>>

\* a if a is not None else b
Or_NoneOnly(a, b) == IF a.ty # "none" THEN a ELSE b

\* b or a
Or_DefaultFirst(a, b) == IF Truthy(b) THEN b ELSE a

\* a or b
Or(a, b) == IF Truthy(a) THEN a ELSE b

Digits == {"0", "1", "5", "8"}
DigitVal(c) == CASE c = "0" -> 0 [] c = "1" -> 1 [] c = "5" -> 5 [] c = "8" -> 8

\* the characters the stored strings of the model are built from
Alphabet == {"0", "5", "-", "a"}

RECURSIVE StrsOfLen(_)
StrsOfLen(n) ==
    IF n = 0 THEN {<<>>}
    ELSE {Append(s, c) : s \in StrsOfLen(n - 1), c \in Alphabet}

Strs(n) == UNION {StrsOfLen(k) : k \in 0..n}

AllDigits(cs) == \A k \in 1..Len(cs) : cs[k] \in Digits

RECURSIVE Decimal(_)
Decimal(cs) ==
    IF cs = <<>> THEN 0
    ELSE 10 * Decimal(SubSeq(cs, 1, Len(cs) - 1)) + DigitVal(cs[Len(cs)])

\* no exception / an exception of class kind with message msg
NoMsg == [text |-> "", host |-> None, port |-> None]
Text(s) == [text |-> s, host |-> None, port |-> None]
NoCause == [kind |-> "none", msg |-> NoMsg]
NoExc == [kind |-> "none", msg |-> NoMsg, cause |-> NoCause]
\* raise kind(msg) from None
Exc(kind, msg) == [kind |-> kind, msg |-> msg, cause |-> NoCause]
\* raise kind from e
ExcFrom(kind, msg, e) == [kind |-> kind, msg |-> msg, cause |-> [kind |-> e.kind, msg |-> e.msg]]

\* int(v): the value, or the exception int() raises
PyInt(v) ==
    CASE v.ty = "none" ->
            [exc |-> Exc("TypeError", Text("int() argument must be a string or a number")),
             val |-> None]
      [] v.ty = "int" -> [exc |-> NoExc, val |-> v]
      [] v.ty = "str" ->
            LET neg == v.s # <<>> /\ v.s[1] = "-"
                body == IF neg THEN Tail(v.s) ELSE v.s
            IN  IF body # <<>> /\ AllDigits(body)
                THEN [exc |-> NoExc,
                      val |-> IntV(IF neg THEN 0 - Decimal(body) ELSE Decimal(body))]
                ELSE [exc |-> Exc("ValueError", Text("invalid literal for int() with base 10")),
                      val |-> None]

\* str(v) of a store reply (None or a str): never raises; str(None) is 'None'
PyStr(v) ==
    CASE v.ty = "none" -> [exc |-> NoExc, val |-> StrV(<<"N", "o", "n", "e">>)]
      [] v.ty = "str" -> [exc |-> NoExc, val |-> v]

----------------------------------------------------------------------------
(* The redis-py exception classes the gateway names, and what the client   *)
(* can answer to a command                                                 *)

\* isinstance(an exception of class kind, cls): AuthenticationError derives
\* from ConnectionError; ResponseError and TimeoutError derive from RedisError
IsInstance(kind, cls) ==
    \/ kind = cls
    \/ kind = "AuthenticationError" /\ cls = "ConnectionError"

\* what self.r.echo('test_value') can do: answer, or raise one of these
EchoOutcomes == {"ok", "ConnectionError", "AuthenticationError", "ResponseError", "TimeoutError"}

\* the message the client library put in the exception it raised
ClientMsg == Text("<client library message>")

AuthRequiredMsg == Text("Authentication required. Provide password.")
InvalidPairMsg == Text("Invalid username-password pair or user is disabled")
RefusedMsg(host, port) ==
    [text |-> "Cannot connect to {host}:{port}. Connection refused.", host |-> host, port |-> port]

----------------------------------------------------------------------------
(* __init__ *)

DefaultPort == 6379

\* the default taken silently
ResolvePort_NoNotice(port) ==
    IF Truthy(port)
    THEN LET r == PyInt(port) IN [exc |-> r.exc, val |-> r.val, notice |-> FALSE]
    ELSE [exc |-> NoExc, val |-> IntV(DefaultPort), notice |-> FALSE]

\* self.port = int(port) if port else print('Choosing Redis default port: 6379') or 6379
ResolvePort(port) ==
    IF Truthy(port)
    THEN LET r == PyInt(port) IN [exc |-> r.exc, val |-> r.val, notice |-> FALSE]
    ELSE [exc |-> NoExc, val |-> IntV(DefaultPort), notice |-> TRUE]

\* for t in range(1, timeout+1): whether t is in the range
InRange(k, timeout) == 1 <= k /\ k < timeout + 1

\* _test_connection: the exception it raises when self.r.echo answers o
TestConnection(o, host, port) ==
    IF o = "ok" THEN NoExc
    ELSE IF IsInstance(o, "AuthenticationError") THEN Exc("AuthenticationError", AuthRequiredMsg)
    ELSE IF IsInstance(o, "ResponseError") THEN Exc("ResponseError", InvalidPairMsg)
    ELSE IF IsInstance(o, "ConnectionError") THEN Exc("ConnectionError", RefusedMsg(host, port))
    ELSE Exc(o, ClientMsg)

\* if t > timeout
LastAttempt_Late(k, timeout) == k > timeout

\* if t >= timeout
LastAttempt(k, timeout) == k >= timeout

\* the iteration without the else: break
Handle_NoBreak(k, timeout, e) ==
    IF e = NoExc
    THEN [ctl |-> "continue", sleep |-> FALSE, exc |-> NoExc]
    ELSE IF IsInstance(e.kind, "ConnectionError")
    THEN IF LastAttempt(k, timeout)
         THEN [ctl |-> "raise", sleep |-> FALSE, exc |-> ExcFrom("ConnectionError", NoMsg, e)]
         ELSE [ctl |-> "continue", sleep |-> TRUE, exc |-> NoExc]
    ELSE [ctl |-> "raise", sleep |-> FALSE, exc |-> e]

\* the iteration with except Exception in place of except ConnectionError
Handle_CatchAll(k, timeout, e) ==
    IF e = NoExc
    THEN [ctl |-> "break", sleep |-> FALSE, exc |-> NoExc]
    ELSE IF LastAttempt(k, timeout)
         THEN [ctl |-> "raise", sleep |-> FALSE, exc |-> ExcFrom("ConnectionError", NoMsg, e)]
         ELSE [ctl |-> "continue", sleep |-> TRUE, exc |-> NoExc]

\* the iteration with time.sleep(1) ahead of the if t >= timeout test
Handle_SleepBeforeRaise(k, timeout, e) ==
    IF e = NoExc
    THEN [ctl |-> "break", sleep |-> FALSE, exc |-> NoExc]
    ELSE IF IsInstance(e.kind, "ConnectionError")
    THEN IF LastAttempt(k, timeout)
         THEN [ctl |-> "raise", sleep |-> TRUE, exc |-> ExcFrom("ConnectionError", NoMsg, e)]
         ELSE [ctl |-> "continue", sleep |-> TRUE, exc |-> NoExc]
    ELSE [ctl |-> "raise", sleep |-> FALSE, exc |-> e]

\* one iteration of the loop of _test_connection_with, _test_connection having
\* raised e (or nothing): what the try/except/else does
Handle(k, timeout, e) ==
    IF e = NoExc
    THEN [ctl |-> "break", sleep |-> FALSE, exc |-> NoExc]
    ELSE IF IsInstance(e.kind, "ConnectionError")
    THEN IF LastAttempt(k, timeout)
         THEN [ctl |-> "raise", sleep |-> FALSE, exc |-> ExcFrom("ConnectionError", NoMsg, e)]
         ELSE [ctl |-> "continue", sleep |-> TRUE, exc |-> NoExc]
    ELSE [ctl |-> "raise", sleep |-> FALSE, exc |-> e]

\* '127.0.0.1'
LocalHost == StrV(<<"1", "2", "7", ".", "0", ".", "0", ".", "1">>)

Hosts == {None, StrV(<<>>), LocalHost}
PortArgs == {None, IntV(0), StrV(<<>>), IntV(80), IntV(DefaultPort), StrV(<<"8", "0">>),
             StrV(<<"8", "a">>)}
Passwords == {None, StrV(<<"p", "w">>)}
Timeouts == -1..MaxTimeout

NoArgs == [host |-> None, port |-> None, password |-> None, timeout |-> 0]
NoSelf == [host |-> None, port |-> None, password |-> None, r |-> FALSE]

----------------------------------------------------------------------------
(* create_redis_parser and __main__: what the command line and the         *)
(* environment variables give the program                                  *)

DefaultTimeout == 30

\* the timeout of RedisGateway(host, port, passwd): the default of __init__,
\* which the model caps at MaxTimeout to keep the probe histories finite
MainTimeout == IF DefaultTimeout < MaxTimeout THEN DefaultTimeout ELSE MaxTimeout

\* a key option or variable that is not given
Unset == "<unset>"

\* the host default is os.getenv without a fallback
ParserHost_NoDefault(flag, env) ==
    IF flag # None THEN flag ELSE env

\* --redis_host, default=os.getenv(HOST_ENV_KEY, '127.0.0.1'); None is not given / not set
ParserHost(flag, env) ==
    IF flag # None THEN flag ELSE IF env # None THEN env ELSE LocalHost

\* --redis_port, type=int, default=os.getenv(PORT_ENV_KEY, 6379): argparse
\* converts the option, or a default that is a string, with int and exits on
\* a value int rejects
ParserPort(flag, env) ==
    PyInt(IF flag # None THEN flag ELSE IF env # None THEN env ELSE IntV(DefaultPort))

\* --redis_passwd, default=os.getenv(PASSWD_ENV_KEY)
ParserPasswd(flag, env) == IF flag # None THEN flag ELSE env

\* --redis_limit_key, default=os.getenv(REDIS_LIMIT_KEY_ENV_KEY, 'limit')
ParserKey(flag, env) ==
    IF flag # Unset THEN flag ELSE IF env # Unset THEN env ELSE "limit"

HostFlags == {None, StrV(<<>>)}
HostEnvs == {None, StrV(<<>>)}
PortFlags == {None, StrV(<<"0">>), StrV(<<"8", "a">>)}
PortEnvs == {None, StrV(<<"8", "0">>)}
PasswdFlags == {None, StrV(<<"p", "w">>)}
PasswdEnvs == {None}
KeyFlags == {Unset, "flag"}
KeyEnvs == {Unset}

\* __str__
InstanceStr(host, port) ==
    [text |-> "<RedisGateway instance connected to server {host}:{port}>",
     host |-> host, port |-> port]

NoCli == [pos |-> "none", hostFlag |-> None, hostEnv |-> None,
          host |-> None, port |-> None, passwd |-> None, key |-> Unset,
          banner |-> NoMsg, out |-> <<>>, printed |-> None]

NoReply == [exc |-> NoExc, val |-> None]
NoGet == [phase |-> "none", key |-> "", default |-> None, map_type |-> "",
          ops |-> <<>>, reply |-> NoReply, ret |-> NoReply]

Init ==
    /\ pc = "Uninitialized"
    /\ args = NoArgs
    /\ self = NoSelf
    /\ t = 0
    /\ outcomes = <<>>
    /\ log = <<>>
    /\ err = NoExc
    /\ lastGet = NoGet
    /\ cli = NoCli

\* __main__ up to the call of RedisGateway: parser.parse_args()
MainParse ==
    /\ pc = "Uninitialized"
    /\ cli.pos = "none"
    /\ \E hf \in HostFlags, he \in HostEnvs, pf \in PortFlags, pe \in PortEnvs,
          wf \in PasswdFlags, we \in PasswdEnvs, kf \in KeyFlags, ke \in KeyEnvs :
        LET port == ParserPort(pf, pe) IN
        cli' = [cli EXCEPT !.pos = IF port.exc # NoExc THEN "exit" ELSE "construct",
                           !.hostFlag = hf, !.hostEnv = he,
                           !.host = ParserHost(hf, he), !.port = port.val,
                           !.passwd = ParserPasswd(wf, we), !.key = ParserKey(kf, ke)]
    /\ UNCHANGED <<pc, args, self, t, outcomes, log, err, lastGet>>

\* __init__ up to the first probe; called by __main__ with what it parsed, or
\* by any other caller with any arguments
Construct ==
    /\ pc = "Uninitialized"
    /\ cli.pos \in {"none", "construct"}
    /\ \E host \in Hosts, port \in PortArgs, password \in Passwords, timeout \in Timeouts :
        LET rp == ResolvePort(port) IN
        /\ cli.pos = "construct" =>
              <<host, port, password, timeout>> = <<cli.host, cli.port, cli.passwd, MainTimeout>>
        /\ args' = [host |-> host, port |-> port, password |-> password, timeout |-> timeout]
        /\ IF rp.exc # NoExc
           THEN /\ self' = [NoSelf EXCEPT !.host = host]
                /\ log' = <<>>
                /\ pc' = "Failed"
                /\ err' = rp.exc
                /\ t' = t
           ELSE /\ self' = [host |-> host, port |-> rp.val, password |-> password, r |-> TRUE]
                /\ log' = (IF rp.notice THEN <<"notice">> ELSE <<>>) \o <<"open">>
                /\ err' = NoExc
                /\ IF InRange(1, timeout)
                   THEN pc' = "Probing" /\ t' = 1
                   ELSE pc' = "Live" /\ t' = t
    /\ UNCHANGED <<outcomes, lastGet, cli>>

\* one iteration of the loop of _test_connection_with
Probe ==
    /\ pc = "Probing"
    /\ \E o \in EchoOutcomes :
        LET e == TestConnection(o, self.host, self.port)
            h == Handle(t, args.timeout, e)
        IN
        /\ outcomes' = Append(outcomes, o)
        /\ log' = log \o <<"probe">> \o (IF h.sleep THEN <<"sleep">> ELSE <<>>)
        /\ CASE h.ctl = "raise" -> pc' = "Failed" /\ err' = h.exc /\ t' = t
             [] h.ctl = "break" -> pc' = "Live" /\ err' = err /\ t' = t
             [] h.ctl = "continue" ->
                    /\ err' = err
                    /\ IF InRange(t + 1, args.timeout)
                       THEN pc' = "Probing" /\ t' = t + 1
                       ELSE pc' = "Live" /\ t' = t
    /\ UNCHANGED <<args, self, lastGet, cli>>

----------------------------------------------------------------------------
(* get *)

Keys == {"limit", "flag"}
Defaults == {None, IntV(0), IntV(100)}
MapTypes == {"int", "str"}

\* what self.r.get(key) can do (decode_responses=True): answer None for an
\* absent key or the stored string, or raise
GetReplies ==
    {[exc |-> NoExc, val |-> v] : v \in {None} \cup {StrV(cs) : cs \in Strs(MaxLen)}}
    \cup {[exc |-> Exc(k, ClientMsg), val |-> None] :
            k \in {"ConnectionError", "TimeoutError", "ResponseError"}}

\* map_type(raw)
Apply(map_type, raw) ==
    CASE map_type = "int" -> PyInt(raw)
      [] map_type = "str" -> PyStr(raw)

CannotMapMsg == Text("Value received from Redis db cannot be mapped to {map_type}")

\* value = None; try: value = map_type(self.r.get(key))
\* the value bound afterwards and the exception in flight
GetTry(reply, map_type) ==
    IF reply.exc # NoExc
    THEN [exc |-> reply.exc, val |-> None]
    ELSE LET c == Apply(map_type, reply.val)
         IN  [exc |-> c.exc, val |-> IF c.exc = NoExc THEN c.val ELSE None]

\* except TypeError: raise TypeError(...) from None
GetExcept(tr) ==
    IF IsInstance(tr.exc.kind, "TypeError")
    THEN [exc |-> Exc("TypeError", CannotMapMsg), val |-> tr.val]
    ELSE tr

\* return value or default placed after the try statement, not in finally
GetFinally_NoReturn(tr, default) ==
    IF tr.exc # NoExc
    THEN [exc |-> tr.exc, val |-> None]
    ELSE [exc |-> NoExc, val |-> Or(tr.val, default)]

\* finally: return value or default
\* a return in a finally block discards the exception in flight
GetFinally(tr, default) == [exc |-> NoExc, val |-> Or(tr.val, default)]

\* what get(key, default, map_type) gives its caller: a raised exception or a value
GetResult(reply, default, map_type) ==
    GetFinally(GetExcept(GetTry(reply, map_type)), default)

\* the key read a second time
GetCommands_Twice(key) == <<[cmd |-> "GET", key |-> key], [cmd |-> "GET", key |-> key]>>

\* self.r.get(key): the commands get sends to the store
GetCommands(key) == <<[cmd |-> "GET", key |-> key]>>

\* rg.get(key, default, map_type) on a constructed instance, up to the
\* command self.r.get(key) it sends to the store
GetCall ==
    /\ pc = "Live"
    /\ lastGet.phase # "reading"
    /\ cli.pos \in {"none", "loop"}
    /\ \E key \in Keys, default \in Defaults, map_type \in MapTypes :
        /\ cli.pos = "loop" => <<key, default, map_type>> = <<cli.key, None, "int">>
        /\ lastGet' = [phase |-> "reading", key |-> key, default |-> default,
                       map_type |-> map_type, ops |-> GetCommands(key),
                       reply |-> NoReply, ret |-> NoReply]
    /\ cli' = IF cli.pos = "loop"
              THEN [cli EXCEPT !.pos = "get", !.out = <<"get">>, !.printed = None]
              ELSE cli
    /\ UNCHANGED <<pc, args, self, t, outcomes, log, err>>

\* a get that probes the connection again when the read fails
GetReturn_Reconnect ==
    /\ pc = "Live"
    /\ lastGet.phase = "reading"
    /\ \E reply \in GetReplies :
        /\ lastGet' = [lastGet EXCEPT !.phase = "returned", !.reply = reply,
                       !.ret = GetResult(reply, lastGet.default, lastGet.map_type)]
        /\ IF reply.exc # NoExc /\ InRange(1, args.timeout)
           THEN pc' = "Probing" /\ t' = 1
           ELSE pc' = pc /\ t' = t
    /\ UNCHANGED <<args, self, outcomes, log, err, cli>>

\* the store's answer to self.r.get(key), and the rest of get
GetReturn ==
    /\ pc = "Live"
    /\ lastGet.phase = "reading"
    /\ \E reply \in GetReplies :
        lastGet' = [lastGet EXCEPT !.phase = "returned", !.reply = reply,
                    !.ret = GetResult(reply, lastGet.default, lastGet.map_type)]
    /\ UNCHANGED <<pc, args, self, t, outcomes, log, err, cli>>

----------------------------------------------------------------------------
(* __main__ after the constructor *)

\* print(rg), once RedisGateway(host, port, passwd) has returned
MainPrintInstance ==
    /\ cli.pos = "construct"
    /\ pc = "Live"
    /\ cli' = [cli EXCEPT !.pos = "loop", !.banner = InstanceStr(self.host, self.port)]
    /\ UNCHANGED <<pc, args, self, t, outcomes, log, err, lastGet>>

\* the rest of an iteration of while True, rg.get having returned or raised:
\* print(limit); time.sleep(0.5). An exception out of rg.get ends the program
MainPrint ==
    /\ cli.pos = "get"
    /\ lastGet.phase = "returned"
    /\ cli' = IF lastGet.ret.exc # NoExc
              THEN [cli EXCEPT !.pos = "crashed"]
              ELSE [cli EXCEPT !.pos = "loop", !.out = @ \o <<"print", "sleep">>,
                               !.printed = lastGet.ret.val]
    /\ UNCHANGED <<pc, args, self, t, outcomes, log, err, lastGet>>

Next == MainParse \/ Construct \/ Probe \/ GetCall \/ GetReturn \/ MainPrintInstance \/ MainPrint

Spec == Init /\ [][Next]_vars

\* the steps of the command-line program after parsing
MainStep ==
    \/ cli.pos = "construct" /\ Construct
    \/ cli.pos = "construct" /\ Probe
    \/ MainPrintInstance
    \/ cli.pos = "loop" /\ GetCall
    \/ cli.pos = "get" /\ GetReturn
    \/ MainPrint

MainNext == MainParse \/ MainStep

\* the command-line program alone: the interpreter keeps running its single
\* thread, and every call to the store returns
MainSpec == Init /\ [][MainNext]_vars /\ WF_vars(MainStep)

----------------------------------------------------------------------------
(* Properties *)

Last(seq) == seq[Len(seq)]

\* the probes and sleeps of construction, in order
ProbeEvents == SelectSeq(log, LAMBDA ev : ev \in {"probe", "sleep"})

\* probe, sleep, probe, ..., probe: n probes with a sleep between each two
Alternating(n) == [k \in 1..(2 * n - 1) |-> IF k % 2 = 1 THEN "probe" ELSE "sleep"]

\* probe, sleep, ..., probe, sleep: n probes each followed by a sleep
Retried(n) == [k \in 1..(2 * n) |-> IF k % 2 = 1 THEN "probe" ELSE "sleep"]

Notices == Len(SelectSeq(log, LAMBDA ev : ev = "notice"))

AllRefused == \A k \in 1..Len(outcomes) : outcomes[k] = "ConnectionError"

\* C1: with timeout N >= 1 and every probe refused, construction never yields
\* an instance; while it runs, every probe made so far was followed by a sleep
\* and fewer than N were made; when it ends it has failed with ConnectionError
\* after exactly N probes with a sleep after each of the first N-1 only.
C1_RefusedExhausts ==
    (self.r /\ args.timeout >= 1 /\ AllRefused) =>
        /\ pc # "Live"
        /\ pc = "Probing" =>
            /\ Len(outcomes) < args.timeout
            /\ ProbeEvents = Retried(Len(outcomes))
        /\ pc = "Failed" =>
            /\ Len(outcomes) = args.timeout
            /\ ProbeEvents = Alternating(args.timeout)
            /\ Last(log) = "probe"
            /\ err.kind = "ConnectionError"

C1_Witness ==
    /\ pc = "Failed"
    /\ args.timeout = 2
    /\ outcomes = <<"ConnectionError", "ConnectionError">>
    /\ ProbeEvents = <<"probe", "sleep", "probe">>

\* C2 (as claimed): a probe that meets AuthenticationError is the last probe,
\* no sleep follows it, and construction fails with AuthenticationError.
C2_AuthFailsImmediately ==
    \A k \in 1..Len(outcomes) :
        outcomes[k] = "AuthenticationError" =>
            /\ k = Len(outcomes)
            /\ pc = "Failed"
            /\ Last(log) = "probe"
            /\ err.kind = "AuthenticationError"

\* C3 (as claimed): an instance is live only if some probe succeeded.
C3_LiveOnlyAfterSuccess ==
    pc = "Live" => \E k \in 1..Len(outcomes) : outcomes[k] = "ok"

\* whether the read or the coercion of the last get failed
GetFailed ==
    \/ lastGet.reply.exc # NoExc
    \/ Apply(lastGet.map_type, lastGet.reply.val).exc # NoExc

\* C4: get never raises to its caller; when the store read or the coercion
\* map_type(raw) fails, get returns default.
C4_GetNeverRaises ==
    lastGet.phase = "returned" =>
        /\ lastGet.ret.exc = NoExc
        /\ GetFailed => lastGet.ret.val = lastGet.default

C4_Witness ==
    /\ lastGet.phase = "returned"
    /\ lastGet.map_type = "int"
    /\ lastGet.reply = [exc |-> NoExc, val |-> StrV(<<"a">>)]
    /\ lastGet.default = IntV(100)
    /\ lastGet.ret = [exc |-> NoExc, val |-> IntV(100)]

\* C5: get(key, default, int) with the read answered returns the integer value
\* of the stored string when the key is set and that integer is not zero, and
\* default when the key is unset or the stored string is an integer equal to
\* zero; with default 100: unset -> 100, '50' -> 50, '-5' -> -5, '0' -> 100.
C5_IntGet ==
    (lastGet.phase = "returned" /\ lastGet.map_type = "int" /\ lastGet.reply.exc = NoExc) =>
        LET raw == lastGet.reply.val
            n == PyInt(raw)
        IN
        /\ raw = None => lastGet.ret.val = lastGet.default
        /\ (raw # None /\ n.exc = NoExc /\ n.val.i # 0) => lastGet.ret.val = n.val
        /\ (raw # None /\ n.exc = NoExc /\ n.val.i = 0) => lastGet.ret.val = lastGet.default
        /\ lastGet.default = IntV(100) =>
            /\ raw = StrV(<<"5", "0">>) => lastGet.ret.val = IntV(50)
            /\ raw = StrV(<<"-", "5">>) => lastGet.ret.val = IntV(0 - 5)
            /\ raw = StrV(<<"0">>) => lastGet.ret.val = IntV(100)
            /\ raw = None => lastGet.ret.val = IntV(100)

C5_Witness ==
    /\ lastGet.phase = "returned"
    /\ lastGet.map_type = "int"
    /\ lastGet.reply = [exc |-> NoExc, val |-> StrV(<<"0">>)]
    /\ lastGet.default = IntV(100)
    /\ lastGet.ret.val = IntV(100)

\* C6: with timeout N >= 1, when the k-th probe succeeds after k-1 refused
\* ones (k <= N), it is the last probe, construction has completed with a
\* live instance and no error, and exactly k probes and k-1 sleeps were made,
\* a sleep after each refused probe and nothing after the successful one.
C6_SuccessCompletes ==
    \A k \in 1..Len(outcomes) :
        (outcomes[k] = "ok" /\ \A j \in 1..(k - 1) : outcomes[j] = "ConnectionError") =>
            /\ k = Len(outcomes)
            /\ k <= args.timeout
            /\ pc = "Live"
            /\ err = NoExc
            /\ ProbeEvents = Alternating(k)
            /\ Last(log) = "probe"

C6_Witness ==
    /\ pc = "Live"
    /\ outcomes = <<"ConnectionError", "ok">>
    /\ ProbeEvents = <<"probe", "sleep", "probe">>

\* C7: a probe that meets ResponseError is the last probe on whichever attempt
\* it occurs, no sleep follows it, and construction fails with the error
\* 'Invalid username-password pair or user is disabled'.
C7_InvalidCredentialFails ==
    \A k \in 1..Len(outcomes) :
        outcomes[k] = "ResponseError" =>
            /\ k = Len(outcomes)
            /\ pc = "Failed"
            /\ Last(log) = "probe"
            /\ err = Exc("ResponseError", InvalidPairMsg)

C7_Witness ==
    /\ pc = "Failed"
    /\ outcomes = <<"ConnectionError", "ResponseError">>
    /\ err.msg = InvalidPairMsg

\* C8 (as claimed): a probe that meets a transport error that is neither a
\* refusal nor an authentication or credential condition (TimeoutError) is the
\* last probe, no sleep follows it, and the caller receives a ConnectionError.
C8_OtherErrorIsConnectionError ==
    \A k \in 1..Len(outcomes) :
        outcomes[k] = "TimeoutError" =>
            /\ k = Len(outcomes)
            /\ pc = "Failed"
            /\ Last(log) = "probe"
            /\ IsInstance(err.kind, "ConnectionError")

\* C8 (amended): such a probe is the last probe, no sleep follows it, and the
\* caller receives the client library's error unchanged (TimeoutError), which
\* is not a ConnectionError.
C8_OtherErrorPropagates ==
    \A k \in 1..Len(outcomes) :
        outcomes[k] = "TimeoutError" =>
            /\ k = Len(outcomes)
            /\ pc = "Failed"
            /\ Last(log) = "probe"
            /\ err = Exc("TimeoutError", ClientMsg)
            /\ ~IsInstance(err.kind, "ConnectionError")

C8_Witness ==
    /\ pc = "Failed"
    /\ outcomes = <<"ConnectionError", "TimeoutError">>
    /\ err.kind = "TimeoutError"

\* C9 (as claimed): when the store read of a get on a live instance raises
\* ConnectionError, the ConnectionError reaches the caller of get.
C9_ReadFaultPropagates ==
    (lastGet.phase = "returned" /\ lastGet.reply.exc.kind = "ConnectionError") =>
        lastGet.ret.exc.kind = "ConnectionError"

\* C9 (amended): when the store read of a get on a live instance raises
\* ConnectionError, get raises nothing and returns default.
C9_ReadFaultAbsorbed ==
    (lastGet.phase = "returned" /\ lastGet.reply.exc.kind = "ConnectionError") =>
        lastGet.ret = [exc |-> NoExc, val |-> lastGet.default]

C9_Witness ==
    /\ lastGet.phase = "returned"
    /\ lastGet.reply.exc.kind = "ConnectionError"
    /\ lastGet.default = IntV(100)
    /\ lastGet.ret = [exc |-> NoExc, val |-> IntV(100)]

\* the port is 6379 and one notice was emitted, before the connection was opened
PortDefaulted ==
    /\ self.r
    /\ self.port = IntV(6379)
    /\ Notices = 1
    /\ SubSeq(log, 1, 2) = <<"notice", "open">>

\* the port is int(port) and no notice was emitted
PortConverted ==
    /\ self.r
    /\ self.port = PyInt(args.port).val
    /\ Notices = 0
    /\ log[1] = "open"

\* C10 (as claimed): once __init__ has resolved the port, a falsy port
\* argument gave port 6379 and one notice before the connection was opened, a
\* non-falsy one gave int(port) and no notice, and construction has not failed
\* before the connection was opened.
C10_PortNeverFails ==
    pc # "Uninitialized" =>
        /\ ~Truthy(args.port) => PortDefaulted
        /\ Truthy(args.port) => PortConverted

\* C10 (amended): a falsy port argument gives port 6379 and one notice before
\* the connection is opened; a non-falsy one that int() accepts gives int(port)
\* ('80' -> 80) and no notice; a non-falsy one that int() rejects makes
\* construction fail with int()'s ValueError before the connection is opened
\* and before any probe.
C10_PortResolution ==
    pc # "Uninitialized" =>
        /\ ~Truthy(args.port) => PortDefaulted
        /\ (Truthy(args.port) /\ PyInt(args.port).exc = NoExc) => PortConverted
        /\ args.port \in {IntV(80), StrV(<<"8", "0">>)} => self.port = IntV(80)
        /\ (Truthy(args.port) /\ PyInt(args.port).exc # NoExc) =>
            /\ pc = "Failed"
            /\ err.kind = "ValueError"
            /\ ~self.r
            /\ log = <<>>
            /\ outcomes = <<>>

C10_Witness ==
    /\ pc = "Failed"
    /\ args.port = StrV(<<"8", "a">>)
    /\ err.kind = "ValueError"
    /\ ~self.r

\* C11 (as claimed): the ConnectionError the caller receives when the last
\* allowed probe is refused has the message 'Cannot connect to host:port.
\* Connection refused.' with the instance's host and port.
C11_ExhaustedErrorHasMessage ==
    (pc = "Failed" /\ outcomes # <<>> /\ Last(outcomes) = "ConnectionError") =>
        /\ err.kind = "ConnectionError"
        /\ err.msg = RefusedMsg(self.host, self.port)

Sleeps == Len(SelectSeq(log, LAMBDA ev : ev = "sleep"))
Probes == Len(SelectSeq(log, LAMBDA ev : ev = "probe"))

\* the outcomes _test_connection_with retries on
IsRetried(o) == o \in {"ConnectionError", "AuthenticationError"}

\* C13: with timeout N >= 1 and whatever the probes answer, construction makes
\* at most N probes and at most N-1 sleeps; while it runs fewer than N probes
\* were made; every sleep directly follows a probe that failed with a retried
\* error and was not the N-th; when construction has ended in Live or Failed
\* the number of sleeps is one less than the number of probes.
C13_BoundedProbing ==
    (self.r /\ args.timeout >= 1) =>
        /\ Probes = Len(outcomes)
        /\ Probes <= args.timeout
        /\ Sleeps <= args.timeout - 1
        /\ \A k \in 1..Len(ProbeEvents) :
              ProbeEvents[k] = "sleep" =>
                  /\ k % 2 = 0
                  /\ ProbeEvents[k - 1] = "probe"
                  /\ IsRetried(outcomes[k \div 2])
                  /\ k \div 2 < args.timeout
        /\ pc = "Probing" => (Probes < args.timeout /\ t = Probes + 1)
        /\ pc \in {"Live", "Failed"} => (Probes >= 1 /\ Sleeps = Probes - 1)

C13_Witness ==
    /\ pc = "Failed"
    /\ args.timeout = 2
    /\ outcomes = <<"AuthenticationError", "TimeoutError">>
    /\ Sleeps = 1

C15_GetReadsOnce ==
    [][lastGet' # lastGet =>
            /\ self' = self
            /\ lastGet'.ops = <<[cmd |-> "GET", key |-> lastGet'.key]>>
            /\ lastGet'.phase = "returned" =>
                  (lastGet.phase = "reading" /\ lastGet'.key = lastGet.key)]_vars

C15_Witness ==
    /\ lastGet.phase = "returned"
    /\ lastGet.key = "flag"
    /\ lastGet.reply.exc.kind = "TimeoutError"
    /\ lastGet.ops = <<[cmd |-> "GET", key |-> "flag"]>>
    /\ self.r

\* the coerced value of the last get, when the read and the coercion succeeded
Coerced == Apply(lastGet.map_type, lastGet.reply.val)

\* C17: what get returns is either a truthy coerced value or the default
\* argument; it is truthy whenever default is; and when the coerced value is
\* falsy the result is default (stored '0' with default None gives None).
C17_NeverFalsyCoerced ==
    lastGet.phase = "returned" =>
        /\ lastGet.ret.exc = NoExc
        /\ \/ lastGet.ret.val = lastGet.default
           \/ /\ ~GetFailed
              /\ lastGet.ret.val = Coerced.val
              /\ Truthy(lastGet.ret.val)
        /\ Truthy(lastGet.default) => Truthy(lastGet.ret.val)
        /\ (~GetFailed /\ ~Truthy(Coerced.val)) => lastGet.ret.val = lastGet.default
        /\ (lastGet.reply = [exc |-> NoExc, val |-> StrV(<<"0">>)]
                /\ lastGet.map_type = "int" /\ lastGet.default = None)
              => lastGet.ret.val = None

C17_Witness ==
    /\ lastGet.phase = "returned"
    /\ lastGet.reply = [exc |-> NoExc, val |-> StrV(<<"0">>)]
    /\ lastGet.map_type = "int"
    /\ lastGet.default = None
    /\ lastGet.ret.val = None

\* the command-line program is the caller
InMain == cli.pos # "none"

\* C12 (as claimed): constructed with an empty or omitted host, the instance's
\* host is a local address, not an empty or null value.
C12_EmptyHostDefaults ==
    (pc # "Uninitialized" /\ args.host \in {None, StrV(<<>>)}) =>
        self.host \notin {None, StrV(<<>>)}

\* C12 (amended): the instance's host is the host argument unchanged, an empty
\* or omitted one included, and that is the host the connection-refused
\* message and __str__ report; the local address 127.0.0.1 is what the
\* command-line parser passes when neither --redis_host nor REDIS_HOST is given.
C12_HostAsGiven ==
    pc # "Uninitialized" =>
        /\ self.host = args.host
        /\ (pc = "Failed" /\ err.cause.kind = "ConnectionError") =>
              err.cause.msg = RefusedMsg(args.host, self.port)
        /\ cli.pos \in {"loop", "get"} => cli.banner.host = args.host
        /\ InMain =>
              args.host = (IF cli.hostFlag # None THEN cli.hostFlag
                           ELSE IF cli.hostEnv # None THEN cli.hostEnv
                           ELSE LocalHost)
        /\ (InMain /\ cli.hostFlag = None /\ cli.hostEnv = None) =>
              self.host = StrV(<<"1", "2", "7", ".", "0", ".", "0", ".", "1">>)

C12_Witness ==
    /\ ~InMain
    /\ pc = "Failed"
    /\ args.host = None
    /\ self.host = None
    /\ err.cause.msg = RefusedMsg(None, IntV(6379))

\* the program is in its polling loop
InLoop == cli.pos \in {"loop", "get"}

\* an iteration of the polling loop has just ended
IterationDone == cli.pos = "loop" /\ lastGet.phase = "returned"

\* C16: in the command-line program, when construction fails no key is read
\* or printed; once construction has succeeded the program never leaves its
\* polling loop; each iteration reads the configured key once, prints the one
\* value get returned (the coerced value or None) and waits; and whatever a
\* read answered, the iteration ends and another one begins.
C16_PollingLoop ==
    /\ []((InMain /\ pc = "Failed") =>
            (cli.pos = "construct" /\ lastGet = NoGet /\ cli.out = <<>>))
    /\ []((InMain /\ pc # "Live") => (~InLoop /\ lastGet = NoGet))
    /\ [][InLoop => InLoop']_vars
    /\ [](IterationDone =>
            /\ cli.out = <<"get", "print", "sleep">>
            /\ lastGet.ops = <<[cmd |-> "GET", key |-> cli.key]>>
            /\ lastGet.ret.exc = NoExc
            /\ cli.printed = lastGet.ret.val
            /\ \/ cli.printed = None
               \/ /\ lastGet.reply.exc = NoExc
                  /\ cli.printed = PyInt(lastGet.reply.val).val)
    /\ [](InLoop => <>(cli.pos = "get"))
    /\ [](InLoop => <>IterationDone)

C16_Witness ==
    /\ IterationDone
    /\ lastGet.reply.exc.kind = "ConnectionError"
    /\ cli.out = <<"get", "print", "sleep">>
    /\ cli.printed = None

====
